---- MODULE Spec2Model ----
(***************************************************************************)
(* Model of the nam-shub propagation engine: the agent Registry            *)
(* (core/src/registry.rs), the Topology (core/src/topology.rs), the        *)
(* batched scheduler (debate_engine/src/simulation/engine.rs) and the      *)
(* sequential scheduler (debate_engine/src/simulation.rs).                 *)
(***************************************************************************)
EXTENDS Integers, Sequences, FiniteSets, TLC

\* ------------------------------------------------------------------------
\* Bounds of the model
\* ------------------------------------------------------------------------
MaxAgents == 3
MaxParallel == 2

Ids == 0 .. (MaxAgents - 1)

\* ------------------------------------------------------------------------
\* Values
\* ------------------------------------------------------------------------
\* Option<T>: None is the empty sequence, Some(x) the one-element sequence.
None == << >>
Some(x) == << x >>

InfectionStatus == {"Healthy", "Infected", "Immune"}
DebateOutcome == {"Ongoing", "ProposerWon", "OpposerWon"}

\* Agent::new: status defaults to Healthy, no infector.
Agent_new == [infection_status |-> "Healthy", infected_by |-> None]

is_infected(a) == a.infection_status = "Infected"
is_healthy(a) == a.infection_status = "Healthy"
is_immune(a) == a.infection_status = "Immune"

\* Debate::new followed by set_outcome: the fields the scheduler reads.
Debate(proposer_id, opposer_id, outcome) ==
    [proposer_id |-> proposer_id, opposer_id |-> opposer_id, outcome |-> outcome]

\* Iteration of a HashMap / HashSet yields its elements in an unspecified
\* order: every enumeration of the set without repetition is possible.
IterationOrders(S) ==
    {s \in [1 .. Cardinality(S) -> S] : \A i, j \in 1 .. Cardinality(S) : i # j => s[i] # s[j]}

Contains(seq, x) == \E i \in 1 .. Len(seq) : seq[i] = x

\* ------------------------------------------------------------------------
\* Topology: connections is a map from an id to the set of its neighbours
\* ------------------------------------------------------------------------
Topology_new == << >>

are_connected(connections, agent_a, agent_b) ==
    IF agent_a \in DOMAIN connections THEN agent_b \in connections[agent_a] ELSE FALSE

\* connections.entry(k).or_default().insert(v)
entry_insert(connections, k, v) ==
    [x \in (DOMAIN connections) \cup {k} |->
        IF x = k
        THEN (IF k \in DOMAIN connections THEN connections[k] ELSE {}) \cup {v}
        ELSE connections[x]]

\* A bug: only agent_a's entry gets the new neighbour.
add_connection_one_way(connections, agent_a, agent_b) ==
    IF agent_a = agent_b THEN connections
    ELSE IF are_connected(connections, agent_a, agent_b) THEN connections
    ELSE entry_insert(connections, agent_a, agent_b)

add_connection(connections, agent_a, agent_b) ==
    IF agent_a = agent_b THEN connections
    ELSE IF are_connected(connections, agent_a, agent_b) THEN connections
    ELSE entry_insert(entry_insert(connections, agent_a, agent_b), agent_b, agent_a)

\* The neighbours of an id, as the set the HashSet holds.
get_neighbors(connections, agent_id) ==
    IF agent_id \in DOMAIN connections THEN connections[agent_id] ELSE {}

\* if let Some(neighbors) = connections.get_mut(&k) { neighbors.remove(&v); }
entry_remove(connections, k, v) ==
    IF k \in DOMAIN connections
    THEN [connections EXCEPT ![k] = connections[k] \ {v}]
    ELSE connections

\* A bug: only agent_a's entry loses the neighbour.
remove_connection_one_way(connections, agent_a, agent_b) ==
    entry_remove(connections, agent_a, agent_b)

remove_connection(connections, agent_a, agent_b) ==
    entry_remove(entry_remove(connections, agent_a, agent_b), agent_b, agent_a)

get_degree(connections, agent_id) ==
    IF agent_id \in DOMAIN connections THEN Cardinality(connections[agent_id]) ELSE 0

\* A bug: the agent_a < agent_b test is left out.
get_all_connections_both_ways(connections) ==
    {e \in (DOMAIN connections) \X (UNION {connections[k] : k \in DOMAIN connections}) :
        e[2] \in connections[e[1]]}

\* The pairs the Vec holds; each pair is pushed once, in HashMap iteration order.
get_all_connections(connections) ==
    {e \in (DOMAIN connections) \X (UNION {connections[k] : k \in DOMAIN connections}) :
        e[2] \in connections[e[1]] /\ e[1] < e[2]}

connection_count(connections) == Cardinality(get_all_connections(connections))

get_all_agent_ids(connections) == DOMAIN connections

\* ------------------------------------------------------------------------
\* Registry
\* ------------------------------------------------------------------------
Registry_new == [next_agent_id |-> 0, agents |-> << >>, topology |-> None]

agent_count(reg) == Cardinality(DOMAIN reg.agents)
infected_count(reg) == Cardinality({id \in DOMAIN reg.agents : is_infected(reg.agents[id])})
healthy_count(reg) == Cardinality({id \in DOMAIN reg.agents : is_healthy(reg.agents[id])})
immune_count(reg) == Cardinality({id \in DOMAIN reg.agents : is_immune(reg.agents[id])})

\* The ids of the Infected agents (the Vec is one iteration order of this set).
get_infected_agent_ids(reg) == {id \in DOMAIN reg.agents : is_infected(reg.agents[id])}

create_agent(reg) ==
    [reg EXCEPT !.next_agent_id = reg.next_agent_id + 1,
                !.agents = [x \in (DOMAIN reg.agents) \cup {reg.next_agent_id} |->
                              IF x = reg.next_agent_id THEN Agent_new ELSE reg.agents[x]]]

\* A bug: an id that is not registered is answered with Ok.
infect_patient_init_unchecked(reg, agent_id) ==
    IF agent_id \in DOMAIN reg.agents
    THEN [ok |-> TRUE,
          reg |-> [reg EXCEPT !.agents[agent_id] =
                      [infection_status |-> "Infected", infected_by |-> None]]]
    ELSE [ok |-> TRUE, reg |-> reg]

\* Result<(), String> together with the registry the call leaves.
infect_patient_init(reg, agent_id) ==
    IF agent_id \in DOMAIN reg.agents
    THEN [ok |-> TRUE,
          reg |-> [reg EXCEPT !.agents[agent_id] =
                      [infection_status |-> "Infected", infected_by |-> None]]]
    ELSE [ok |-> FALSE, reg |-> reg]

\* A bug: the OpposerWon arm leaves the opposer as it is.
opposer_won_arm_unchanged(opposer) == opposer

\* The OpposerWon arm of apply_debate_outcome.
opposer_won_arm(opposer) == [opposer EXCEPT !.infection_status = "Immune"]

\* A bug: the ProposerWon arm does not record the infector.
proposer_won_arm_no_infector(opposer, proposer_id) ==
    [opposer EXCEPT !.infection_status = "Infected"]

\* The ProposerWon arm of apply_debate_outcome.
proposer_won_arm(opposer, proposer_id) ==
    [opposer EXCEPT !.infected_by = Some(proposer_id), !.infection_status = "Infected"]

\* A bug: an opposer that wins is taken out of the agents map.
apply_debate_outcome_removing(reg, proposer_id, opposer_id, outcome) ==
    IF opposer_id \notin DOMAIN reg.agents
    THEN [ok |-> FALSE, reg |-> reg]
    ELSE [ok |-> TRUE,
          reg |-> IF outcome = "OpposerWon"
                  THEN [reg EXCEPT !.agents =
                           [x \in (DOMAIN reg.agents) \ {opposer_id} |-> reg.agents[x]]]
                  ELSE IF outcome = "ProposerWon"
                  THEN [reg EXCEPT !.agents[opposer_id] = proposer_won_arm(@, proposer_id)]
                  ELSE reg]

\* A bug: the ProposerWon arm also writes Infected into the proposer's entry.
apply_debate_outcome_marking_proposer(reg, proposer_id, opposer_id, outcome) ==
    IF opposer_id \notin DOMAIN reg.agents
    THEN [ok |-> FALSE, reg |-> reg]
    ELSE [ok |-> TRUE,
          reg |-> [reg EXCEPT !.agents =
                      [x \in DOMAIN reg.agents |->
                          IF x = opposer_id
                          THEN CASE outcome = "ProposerWon" -> proposer_won_arm(reg.agents[x], proposer_id)
                                 [] outcome = "OpposerWon" -> opposer_won_arm(reg.agents[x])
                                 [] OTHER -> reg.agents[x]
                          ELSE IF x = proposer_id /\ outcome = "ProposerWon"
                          THEN [reg.agents[x] EXCEPT !.infection_status = "Infected"]
                          ELSE reg.agents[x]]]]

\* A bug: the ProposerWon arm records the opposer itself as its infector.
apply_debate_outcome_self_infector(reg, proposer_id, opposer_id, outcome) ==
    IF opposer_id \notin DOMAIN reg.agents
    THEN [ok |-> FALSE, reg |-> reg]
    ELSE [ok |-> TRUE,
          reg |-> [reg EXCEPT !.agents[opposer_id] =
                      CASE outcome = "ProposerWon" -> proposer_won_arm(@, opposer_id)
                        [] outcome = "OpposerWon" -> opposer_won_arm(@)
                        [] OTHER -> @]]

\* A bug: the OpposerWon arm records the proposer as infector.
apply_debate_outcome_recording_proposer(reg, proposer_id, opposer_id, outcome) ==
    IF opposer_id \notin DOMAIN reg.agents
    THEN [ok |-> FALSE, reg |-> reg]
    ELSE [ok |-> TRUE,
          reg |-> [reg EXCEPT !.agents[opposer_id] =
                      CASE outcome = "ProposerWon" -> proposer_won_arm(@, proposer_id)
                        [] outcome = "OpposerWon" ->
                             [opposer_won_arm(@) EXCEPT !.infected_by = Some(proposer_id)]
                        [] OTHER -> @]]

apply_debate_outcome(reg, proposer_id, opposer_id, outcome) ==
    IF opposer_id \notin DOMAIN reg.agents
    THEN [ok |-> FALSE, reg |-> reg]
    ELSE [ok |-> TRUE,
          reg |-> [reg EXCEPT !.agents[opposer_id] =
                      CASE outcome = "ProposerWon" -> proposer_won_arm(@, proposer_id)
                        [] outcome = "OpposerWon" -> opposer_won_arm(@)
                        [] OTHER -> @]]

\* A bug: the connection check of can_debate is left out.
can_debate_unconnected(reg, proposer_id, opposer_id) ==
    IF proposer_id \notin DOMAIN reg.agents THEN [ok |-> FALSE, err |-> "proposer not found"]
    ELSE IF opposer_id \notin DOMAIN reg.agents THEN [ok |-> FALSE, err |-> "opposer not found"]
    ELSE IF ~is_infected(reg.agents[proposer_id]) THEN [ok |-> FALSE, err |-> "proposer is not infected"]
    ELSE IF ~is_healthy(reg.agents[opposer_id]) THEN [ok |-> FALSE, err |-> "opposer is not healthy"]
    ELSE IF reg.topology = None THEN [ok |-> FALSE, err |-> "Topology does not exist"]
    ELSE [ok |-> TRUE, err |-> "none"]

\* can_debate: Ok(()) or the first check that fails.
can_debate(reg, proposer_id, opposer_id) ==
    IF proposer_id \notin DOMAIN reg.agents THEN [ok |-> FALSE, err |-> "proposer not found"]
    ELSE IF opposer_id \notin DOMAIN reg.agents THEN [ok |-> FALSE, err |-> "opposer not found"]
    ELSE IF ~is_infected(reg.agents[proposer_id]) THEN [ok |-> FALSE, err |-> "proposer is not infected"]
    ELSE IF ~is_healthy(reg.agents[opposer_id]) THEN [ok |-> FALSE, err |-> "opposer is not healthy"]
    ELSE IF reg.topology = None THEN [ok |-> FALSE, err |-> "Topology does not exist"]
    ELSE IF ~are_connected(reg.topology[1], proposer_id, opposer_id)
         THEN [ok |-> FALSE, err |-> "not connected"]
    ELSE [ok |-> TRUE, err |-> "none"]

\* A bug: the filter lets every agent through that is not Infected.
target_filter_not_infected(reg, id) ==
    IF id \in DOMAIN reg.agents THEN ~is_infected(reg.agents[id]) ELSE FALSE

\* The filter closure of get_potential_targets.
target_filter(reg, id) ==
    IF id \in DOMAIN reg.agents THEN is_healthy(reg.agents[id]) ELSE FALSE

\* get_potential_targets collects the neighbours that pass the filter, in the
\* iteration order of the neighbour HashSet: the Vec it returns is one of the
\* enumerations of the set of Healthy registered neighbours.
potential_target_set(reg, infector_id) ==
    IF reg.topology = None THEN {}
    ELSE {id \in get_neighbors(reg.topology[1], infector_id) : target_filter(reg, id)}

get_potential_targets(reg, infector_id) ==
    IterationOrders(potential_target_set(reg, infector_id))

\* ------------------------------------------------------------------------
\* Batched scheduler (simulation/engine.rs): pure parts
\* ------------------------------------------------------------------------
\* A bug: the check against used_opposers is left out.
already_used_never(used_opposers, opposer_id) == FALSE

\* used_opposers.contains(&opposer_id)
already_used(used_opposers, opposer_id) == opposer_id \in used_opposers

\* A bug: the batch is returned as soon as it holds one pair.
batch_full_at_one(batch, max_parallel) == Len(batch) >= 1

\* batch.len() >= self.max_parallel_debates
batch_full(batch, max_parallel) == Len(batch) >= max_parallel

\* The inner loop of build_debate_batch over the targets of one proposer.
\* acc = [batch, used_opposers, returned]; returned records the early return.
RECURSIVE batch_targets(_, _, _, _, _)
batch_targets(proposer_id, targets, j, acc, max_parallel) ==
    IF acc.returned \/ j > Len(targets) THEN acc
    ELSE LET opposer_id == targets[j]
             edge == << proposer_id, opposer_id >>
         IN  IF already_used(acc.used_opposers, opposer_id)
             THEN batch_targets(proposer_id, targets, j + 1, acc, max_parallel)
             ELSE LET batch == Append(acc.batch, edge)
                  IN  batch_targets(proposer_id, targets, j + 1,
                          [batch |-> batch,
                           used_opposers |-> acc.used_opposers \cup {opposer_id},
                           returned |-> batch_full(batch, max_parallel)],
                          max_parallel)

\* The outer loop of build_debate_batch over the frontier.
\* targets_of[p]: the Vec get_potential_targets returns for proposer p.
RECURSIVE batch_proposers(_, _, _, _, _)
batch_proposers(infected_deque, i, acc, max_parallel, targets_of) ==
    IF acc.returned \/ i > Len(infected_deque) THEN acc
    ELSE LET proposer_id == infected_deque[i]
             targets == targets_of[proposer_id]
         IN  batch_proposers(infected_deque, i + 1,
                 batch_targets(proposer_id, targets, 1, acc, max_parallel),
                 max_parallel, targets_of)

\* A bug: the frontier is walked from its back to its front.
build_debate_batch_from_back(infected_deque, max_parallel, targets_of) ==
    batch_proposers([i \in 1 .. Len(infected_deque) |->
                        infected_deque[Len(infected_deque) + 1 - i]], 1,
        [batch |-> << >>, used_opposers |-> {}, returned |-> FALSE],
        max_parallel, targets_of).batch

build_debate_batch(infected_deque, max_parallel, targets_of) ==
    batch_proposers(infected_deque, 1,
        [batch |-> << >>, used_opposers |-> {}, returned |-> FALSE],
        max_parallel, targets_of).batch

RECURSIVE TargetsProduct(_, _)
TargetsProduct(reg, P) ==
    IF P = {} THEN {<< >>}
    ELSE LET p == CHOOSE x \in P : TRUE
         IN  {(p :> t) @@ f : t \in get_potential_targets(reg, p), f \in TargetsProduct(reg, P \ {p})}

\* What the calls of get_potential_targets in build_debate_batch can return,
\* one Vec for each agent of the frontier.
FrontierTargets(reg, infected_deque) ==
    TargetsProduct(reg, {infected_deque[i] : i \in 1 .. Len(infected_deque)})

\* The batches build_debate_batch(registry, &infected_deque) can return.
debate_batches(reg, infected_deque, max_parallel) ==
    {build_debate_batch(infected_deque, max_parallel, targets_of) :
        targets_of \in FrontierTargets(reg, infected_deque)}

\* A bug: the predicate of retain is inverted.
retain_without_targets(reg, infected_deque) ==
    LET keep(id) == potential_target_set(reg, id) = {}
    IN  SelectSeq(infected_deque, keep)

\* infected_deque.retain(|&id| !registry.get_potential_targets(id).is_empty())
retain_with_targets(reg, infected_deque) ==
    LET keep(id) == potential_target_set(reg, id) # {}
    IN  SelectSeq(infected_deque, keep)

\* finalize, line 168: rounds is the length of the contest log.
rounds_of_log(debates_log) == Len(debates_log)

\* The sequential run, line 111: rounds is the number of pairs tried.
rounds_of_edges(edges) == Cardinality(edges)

\* A bug: the opposer joins the frontier whatever the outcome was.
push_frontier_any_outcome(deque, debate) ==
    IF ~Contains(deque, debate.opposer_id)
    THEN Append(deque, debate.opposer_id)
    ELSE deque

\* A bug: a beaten opposer is not added to the frontier.
push_frontier_never(deque, debate) == deque

\* apply_batch_results, lines 151-155: a beaten opposer joins the frontier.
push_frontier(deque, debate) ==
    IF debate.outcome = "ProposerWon" /\ ~Contains(deque, debate.opposer_id)
    THEN Append(deque, debate.opposer_id)
    ELSE deque

\* apply_batch_results, lines 147-158: the body of the loop for one debate.
\* st = [ok, registry, infected_deque, all_debates]; ok = FALSE is the Err of ?.
apply_batch_step(st, debate) ==
    LET r == apply_debate_outcome(st.registry, debate.proposer_id, debate.opposer_id,
                                  debate.outcome)
    IN  IF r.ok
        THEN [ok |-> TRUE,
              registry |-> r.reg,
              infected_deque |-> push_frontier(st.infected_deque, debate),
              all_debates |-> Append(st.all_debates, debate)]
        ELSE [st EXCEPT !.ok = FALSE]

\* apply_batch_results as a whole: the loop over the debates in the order given.
RECURSIVE apply_batch_results(_, _)
apply_batch_results(st, ds) ==
    IF ds = << >> \/ ~st.ok THEN st
    ELSE apply_batch_results(apply_batch_step(st, Head(ds)), Tail(ds))

\* A bug: the join loop ends after the first task it joins.
join_set_first(ts) == TRUE

\* while let Some(result) = tasks.join_next().await: the loop ends when no
\* task is left in the JoinSet.
join_set_empty(ts) == \A k \in 1 .. Len(ts) : ts[k].state = "joined"

\* A bug: the debates joined before the failure are applied all the same.
failed_batch_registry_applied(reg, joined_debates) ==
    apply_batch_results([ok |-> TRUE, registry |-> reg, infected_deque |-> << >>,
                         all_debates |-> << >>], joined_debates).registry

\* run, line 49: the ? returns the error before apply_batch_results is
\* called; the debates joined so far are dropped and the registry stays as it is.
failed_batch_registry(reg, joined_debates) == reg

\* ------------------------------------------------------------------------
\* State
\* ------------------------------------------------------------------------
VARIABLES
    registry,              \* the Registry handed to Simulation::run
    max_parallel_debates,  \* Simulation.max_parallel_debates
    pc,                    \* position of the coordinating flow
    infected_deque,        \* the frontier of Simulation::run
    all_debates,           \* the contest log of Simulation::run
    batch,                 \* the pairs of the batch in flight
    tasks,                 \* the JoinSet: one task per pair of the batch
    finished,              \* indices of finished, not yet joined tasks, in completion order
    results,               \* debates joined so far, then the debates still to apply
    contests,              \* every pair run_debate was called for, in call order
    passes,                \* number of passes through the while loop of run
    registry_at_dispatch,  \* the registry as it was when the batch in flight was built
    call,                  \* the last call made on the Registry interface
    engine,                \* which Simulation::run is running: batched or sequential
    frontier,              \* sequential run: the frontier
    visited_edges,         \* sequential run: the pairs already tried
    proposer_id,           \* sequential run: the agent popped from the frontier
    targets,               \* sequential run: its targets still to be visited
    debates,               \* sequential run: the contest log
    cur_debate,            \* run_debate: the Debate being built
    contest_pc,            \* run_debate: the call it is about to make, or how it returned
    llm_calls,             \* run_debate: the send_message calls made so far, in call order
    turn,                  \* run_debate: the loop variable of for turn in 0..max_turns
    message_id,            \* run_debate: the id of the next message
    judge_response         \* judge_debate: the judge's reply, once received

batched_vars == << max_parallel_debates, infected_deque, all_debates, batch, tasks,
                   finished, results, passes, registry_at_dispatch >>

sequential_vars == << frontier, visited_edges, proposer_id, targets, debates >>

contest_vars == << cur_debate, contest_pc, llm_calls, turn, message_id, judge_response >>

vars == << registry, pc, engine, contests, call, batched_vars, sequential_vars, contest_vars >>

\* ------------------------------------------------------------------------
\* Initial states: a registry as the setup code builds it (create_agent for
\* ids 0..n-1, a topology built with add_connection, infect_patient_init for
\* the seeds), and a configured max_parallel_debates.
\* ------------------------------------------------------------------------
Edges == {e \in SUBSET Ids : Cardinality(e) = 2}

RECURSIVE connect_all(_, _)
connect_all(connections, E) ==
    IF E = {} THEN connections
    ELSE LET e == CHOOSE x \in E : TRUE
             a == CHOOSE x \in e : TRUE
             b == CHOOSE x \in e : x # a
         IN  connect_all(add_connection(connections, a, b), E \ {e})

RECURSIVE create_agents(_, _)
create_agents(reg, n) == IF n = 0 THEN reg ELSE create_agents(create_agent(reg), n - 1)

RECURSIVE seed_all(_, _)
seed_all(reg, S) ==
    IF S = {} THEN reg
    ELSE LET s == CHOOSE x \in S : TRUE
         IN  seed_all(infect_patient_init(reg, s).reg, S \ {s})

InitialTopologies == {None} \cup {Some(connect_all(Topology_new, E)) : E \in SUBSET Edges}

InitialRegistries ==
    {seed_all([create_agents(Registry_new, n) EXCEPT !.topology = t], S) :
        n \in 0 .. MaxAgents, t \in InitialTopologies, S \in SUBSET Ids}

NoCall == [op |-> "none"]

\* Everything but the registry and the configuration: no run has started.
InitRun ==
    /\ registry_at_dispatch = None
    /\ call = NoCall
    /\ pc = "idle"
    /\ infected_deque = << >>
    /\ all_debates = << >>
    /\ batch = << >>
    /\ tasks = << >>
    /\ finished = << >>
    /\ results = << >>
    /\ contests = << >>
    /\ passes = 0
    /\ engine = "none"
    /\ frontier = << >>
    /\ visited_edges = {}
    /\ proposer_id = None
    /\ targets = << >>
    /\ debates = << >>
    /\ cur_debate = None
    /\ contest_pc = "none"
    /\ llm_calls = << >>
    /\ turn = 0
    /\ message_id = 0
    /\ judge_response = None

Init ==
    /\ registry \in InitialRegistries
    /\ max_parallel_debates \in 0 .. MaxParallel
    /\ InitRun

\* ------------------------------------------------------------------------
\* Batched scheduler: Simulation::run (simulation/engine.rs)
\* ------------------------------------------------------------------------
TaskRunning == [state |-> "running", result |-> "none"]

\* run, line 33: the frontier is the Infected ids in HashMap iteration order.
RunStart ==
    /\ pc = "idle"
    /\ infected_deque' \in IterationOrders(get_infected_agent_ids(registry))
    /\ all_debates' = << >>
    /\ pc' = "loop"
    /\ engine' = "batched"
    /\ UNCHANGED << registry, max_parallel_debates, batch, tasks, finished, results,
                    contests, passes, call, registry_at_dispatch, sequential_vars, contest_vars >>

\* run, lines 38 and 55: the frontier is empty, the run returns Ok(finalize(..)).
Finalize ==
    /\ pc = "loop"
    /\ infected_deque = << >>
    /\ pc' = "done"
    /\ UNCHANGED << registry, max_parallel_debates, infected_deque, all_debates, batch,
                    tasks, finished, results, contests, passes, engine, call,
                    registry_at_dispatch, sequential_vars, contest_vars >>

\* run, lines 40-46: the batch is empty, agents without targets leave the frontier.
PruneFrontier ==
    /\ pc = "loop"
    /\ infected_deque # << >>
    /\ << >> \in debate_batches(registry, infected_deque, max_parallel_debates)
    /\ infected_deque' = retain_with_targets(registry, infected_deque)
    /\ passes' = passes + 1
    /\ UNCHANGED << registry, max_parallel_debates, pc, all_debates, batch, tasks,
                    finished, results, contests, engine, call,
                    registry_at_dispatch, sequential_vars, contest_vars >>

\* registry.get_agent(id).unwrap() succeeds for both ids of every pair.
agents_found(reg, pairs) ==
    \A i \in 1 .. Len(pairs) : pairs[i][1] \in DOMAIN reg.agents /\ pairs[i][2] \in DOMAIN reg.agents

\* run, lines 40-49 and run_debate_batch, lines 99-126: a batch is built and one
\* task is spawned per pair; the coordinator then waits in join_next.
Dispatch ==
    /\ pc = "loop"
    /\ infected_deque # << >>
    /\ \E b \in debate_batches(registry, infected_deque, max_parallel_debates) :
          /\ b # << >>
          /\ passes' = passes + 1
          /\ IF agents_found(registry, b)
             THEN /\ batch' = b
                  /\ registry_at_dispatch' = Some(registry)
                  /\ tasks' = [i \in 1 .. Len(b) |-> TaskRunning]
                  /\ contests' = contests \o b
                  /\ pc' = "join"
             ELSE /\ pc' = "panicked"
                  /\ UNCHANGED << batch, tasks, contests, registry_at_dispatch >>
    /\ finished' = << >>
    /\ results' = << >>
    /\ UNCHANGED << registry, max_parallel_debates, infected_deque, all_debates, engine,
                    call, sequential_vars, contest_vars >>

\* A reply of the judge model, as far as judge_debate reads it: which of the
\* two words it contains.
JudgeResponses == SUBSET {"PROPOSITION", "OPPOSITION"}

\* A bug: a reply with neither word is handed on as an Ongoing verdict.
judge_debate_ongoing(response) ==
    IF "PROPOSITION" \in response THEN "ProposerWon"
    ELSE IF "OPPOSITION" \in response THEN "OpposerWon"
    ELSE "Ongoing"

\* judge_debate on the reply it received: Ok(outcome), or the bail!.
judge_debate(response) ==
    IF "PROPOSITION" \in response THEN "ProposerWon"
    ELSE IF "OPPOSITION" \in response THEN "OpposerWon"
    ELSE "Err"

\* What a run_debate task can end with: an error of a send_message call, or
\* what judge_debate makes of the judge's reply, which set_outcome stores in
\* the Debate.
TaskResults == {"Err"} \cup {judge_debate(response) : response \in JudgeResponses}

\* A spawned run_debate task runs to its end.
TaskFinish ==
    /\ pc = "join"
    /\ \E i \in 1 .. Len(tasks), r \in TaskResults :
          /\ tasks[i].state = "running"
          /\ tasks' = [tasks EXCEPT ![i] = [state |-> "finished", result |-> r]]
          /\ finished' = Append(finished, i)
    /\ UNCHANGED << registry, max_parallel_debates, pc, infected_deque, all_debates,
                    batch, results, contests, passes, engine, call,
                    registry_at_dispatch, sequential_vars, contest_vars >>

\* Dropping the JoinSet aborts every task that is still running.
drop_join_set(ts) ==
    [i \in 1 .. Len(ts) |-> IF ts[i].state = "running"
                            THEN [state |-> "aborted", result |-> "none"]
                            ELSE ts[i]]

\* run_debate_batch, lines 131-136: join_next hands over the next finished task;
\* an Err leaves run_debate_batch and run at once (the two ? operators), and
\* when the JoinSet is empty the loop ends with Ok(results).
JoinNext ==
    /\ pc = "join"
    /\ finished # << >>
    /\ LET i == Head(finished)
           joined == [tasks EXCEPT ![i].state = "joined"]
       IN  IF tasks[i].result = "Err"
           THEN /\ tasks' = drop_join_set(joined)
                /\ finished' = << >>
                /\ results' = << >>
                /\ registry' = failed_batch_registry(registry, results)
                /\ pc' = "failed"
           ELSE /\ tasks' = joined
                /\ UNCHANGED registry
                /\ finished' = Tail(finished)
                /\ results' = Append(results,
                                  Debate(batch[i][1], batch[i][2], tasks[i].result))
                /\ pc' = IF join_set_empty(joined) THEN "apply" ELSE "join"
    /\ UNCHANGED << max_parallel_debates, infected_deque, all_debates, batch,
                    contests, passes, engine, call,
                    registry_at_dispatch, sequential_vars, contest_vars >>

\* apply_batch_results, lines 146-159: one iteration of the loop over the
\* joined debates; after the last one the while loop of run is re-entered.
ApplyResult ==
    /\ pc = "apply"
    /\ results # << >>
    /\ LET debate == Head(results)
           r == apply_batch_step([ok |-> TRUE, registry |-> registry,
                                  infected_deque |-> infected_deque,
                                  all_debates |-> all_debates], debate)
       IN  IF r.ok
           THEN /\ registry' = r.registry
                /\ infected_deque' = r.infected_deque
                /\ all_debates' = r.all_debates
                /\ results' = Tail(results)
                /\ IF Tail(results) = << >>
                   THEN pc' = "loop" /\ batch' = << >> /\ tasks' = << >>
                   ELSE UNCHANGED << pc, batch, tasks >>
           ELSE /\ pc' = "failed"
                /\ UNCHANGED << registry, infected_deque, all_debates, results, batch, tasks >>
    /\ UNCHANGED << max_parallel_debates, finished, contests, passes, engine, call,
                    registry_at_dispatch, sequential_vars, contest_vars >>

\* ------------------------------------------------------------------------
\* Sequential scheduler: Simulation::run (simulation.rs)
\* ------------------------------------------------------------------------
\* run, lines 30-34: the frontier is the Infected ids in HashMap iteration order.
SeqRunStart ==
    /\ pc = "idle"
    /\ frontier' \in IterationOrders(get_infected_agent_ids(registry))
    /\ visited_edges' = {}
    /\ debates' = << >>
    /\ pc' = "seq_loop"
    /\ engine' = "sequential"
    /\ UNCHANGED << registry, contests, call, batched_vars, proposer_id, targets, contest_vars >>

\* run, lines 43-44: the next proposer is popped and its targets are read once.
SeqPopFront ==
    /\ pc = "seq_loop"
    /\ frontier # << >>
    /\ proposer_id' = Some(Head(frontier))
    /\ frontier' = Tail(frontier)
    /\ targets' \in get_potential_targets(registry, Head(frontier))
    /\ pc' = IF targets' = << >> THEN "seq_loop" ELSE "seq_targets"
    /\ UNCHANGED << registry, engine, contests, call, batched_vars, visited_edges, debates, contest_vars >>

\* run, lines 46-95: one iteration of the loop over the targets. run_debate
\* (run_debate.rs) checks can_debate first and fails if it does not hold, and
\* otherwise ends with the judge's verdict or with an error.
SeqDebate ==
    /\ pc = "seq_targets"
    /\ targets # << >>
    /\ LET opposer_id == Head(targets)
           edge == << proposer_id[1], opposer_id >>
           after == IF Tail(targets) = << >> THEN "seq_loop" ELSE "seq_targets"
       IN  /\ targets' = Tail(targets)
           /\ IF edge \in visited_edges
              THEN /\ pc' = after
                   /\ UNCHANGED << registry, contests, visited_edges, frontier, debates >>
              ELSE /\ visited_edges' = visited_edges \cup {edge}
                   /\ contests' = Append(contests, edge)
                   /\ IF ~can_debate(registry, edge[1], edge[2]).ok
                      THEN /\ pc' = "failed"
                           /\ UNCHANGED << registry, frontier, debates >>
                      ELSE \E r \in TaskResults :
                             IF r = "Err"
                             THEN /\ pc' = "failed"
                                  /\ UNCHANGED << registry, frontier, debates >>
                             ELSE LET a == apply_debate_outcome(registry, edge[1], edge[2], r)
                                  IN  IF a.ok
                                      THEN /\ registry' = a.reg
                                           /\ frontier' = IF r = "ProposerWon"
                                                          THEN Append(frontier, opposer_id)
                                                          ELSE frontier
                                           /\ debates' = Append(debates,
                                                             Debate(edge[1], edge[2], r))
                                           /\ pc' = after
                                      ELSE /\ pc' = "failed"
                                           /\ UNCHANGED << registry, frontier, debates >>
    /\ UNCHANGED << engine, call, batched_vars, proposer_id, contest_vars >>

\* run, lines 98-117: the frontier is empty, the run returns Ok.
SeqFinish ==
    /\ pc = "seq_loop"
    /\ frontier = << >>
    /\ pc' = "done"
    /\ UNCHANGED << registry, engine, contests, call, batched_vars, sequential_vars, contest_vars >>

\* ------------------------------------------------------------------------
\* The Registry interface, called directly (core/src/registry.rs)
\* ------------------------------------------------------------------------
Call(op, a, b, outcome, ok) == [op |-> op, a |-> a, b |-> b, outcome |-> outcome, ok |-> ok]

CallCreateAgent ==
    /\ registry.next_agent_id < MaxAgents
    /\ registry' = create_agent(registry)
    /\ call' = Call("create_agent", registry.next_agent_id, None, "none", TRUE)
    /\ UNCHANGED << pc, engine, contests, batched_vars, sequential_vars, contest_vars >>

CallInfectPatientInit ==
    /\ \E agent_id \in Ids :
          LET r == infect_patient_init(registry, agent_id)
          IN  /\ registry' = r.reg
              /\ call' = Call("infect_patient_init", agent_id, None, "none", r.ok)
    /\ UNCHANGED << pc, engine, contests, batched_vars, sequential_vars, contest_vars >>

CallApplyDebateOutcome ==
    /\ \E p \in Ids, o \in Ids, outcome \in DebateOutcome :
          LET r == apply_debate_outcome(registry, p, o, outcome)
          IN  /\ registry' = r.reg
              /\ call' = Call("apply_debate_outcome", p, o, outcome, r.ok)
    /\ UNCHANGED << pc, engine, contests, batched_vars, sequential_vars, contest_vars >>

\* Registry::new, no simulation configured.
RegistryInit ==
    /\ registry = Registry_new
    /\ max_parallel_debates = 0
    /\ InitRun

RegistryNext ==
    \/ CallCreateAgent
    \/ CallInfectPatientInit
    \/ CallApplyDebateOutcome

RegistrySpec == RegistryInit /\ [][RegistryNext]_vars

\* can_debate takes &self: the call answers and leaves the registry alone.
CallCanDebate ==
    /\ \E p \in Ids, o \in Ids :
          call' = Call("can_debate", p, o, "none", can_debate(registry, p, o).ok)
    /\ UNCHANGED << registry, pc, engine, contests, batched_vars, sequential_vars, contest_vars >>

\* get_potential_targets takes &self: the Vec it returns is held in targets,
\* the local that receives it in the sequential run.
CallGetPotentialTargets ==
    /\ \E infector_id \in Ids :
          /\ targets' \in get_potential_targets(registry, infector_id)
          /\ call' = Call("get_potential_targets", infector_id, None, "none", TRUE)
    /\ UNCHANGED << registry, pc, engine, contests, batched_vars, frontier, visited_edges,
                    proposer_id, debates, contest_vars >>

\* ------------------------------------------------------------------------
\* One call on the Registry interface, on any registry of a bounded set
\* ------------------------------------------------------------------------
\* The states an agent's entry can be in: as created, seeded, beaten by some
\* proposer, or Immune.
AgentStates ==
    {Agent_new,
     [infection_status |-> "Infected", infected_by |-> None],
     [infection_status |-> "Immune", infected_by |-> None]}
    \cup {proposer_won_arm(Agent_new, p) : p \in Ids}

\* No topology, an empty one, one with a single connection, and the fully
\* connected one over all ids.
InterfaceTopologies ==
    {None, Some(Topology_new), Some(connect_all(Topology_new, Edges))}
    \cup {Some(add_connection(Topology_new, a, b)) : a, b \in Ids}

\* Registries with agents 0 .. n-1 in any of these states.
InterfaceRegistries ==
    UNION {{[next_agent_id |-> n, agents |-> agents, topology |-> t] :
               agents \in [0 .. (n - 1) -> AgentStates], t \in InterfaceTopologies} :
           n \in 0 .. MaxAgents}

InterfaceInit ==
    /\ registry \in InterfaceRegistries
    /\ max_parallel_debates = 0
    /\ InitRun

InterfaceCanDebate == call = NoCall /\ CallCanDebate

InterfaceInfectPatientInit == call = NoCall /\ CallInfectPatientInit

InterfaceApplyDebateOutcome == call = NoCall /\ CallApplyDebateOutcome

InterfaceGetPotentialTargets == call = NoCall /\ CallGetPotentialTargets

InterfaceNext ==
    \/ InterfaceCanDebate
    \/ InterfaceInfectPatientInit
    \/ InterfaceApplyDebateOutcome
    \/ InterfaceGetPotentialTargets

InterfaceSpec == InterfaceInit /\ [][InterfaceNext]_vars

\* ------------------------------------------------------------------------
\* The Topology interface, called directly (core/src/topology.rs)
\* ------------------------------------------------------------------------
\* Topology::new, held in the registry's topology field.
TopologyInit ==
    /\ registry = [Registry_new EXCEPT !.topology = Some(Topology_new)]
    /\ max_parallel_debates = 0
    /\ InitRun

CallAddConnection ==
    /\ \E agent_a \in Ids, agent_b \in Ids :
          /\ registry' = [registry EXCEPT !.topology =
                             Some(add_connection(registry.topology[1], agent_a, agent_b))]
          /\ call' = Call("add_connection", agent_a, agent_b, "none", TRUE)
    /\ UNCHANGED << pc, engine, contests, batched_vars, sequential_vars, contest_vars >>

CallRemoveConnection ==
    /\ \E agent_a \in Ids, agent_b \in Ids :
          /\ registry' = [registry EXCEPT !.topology =
                             Some(remove_connection(registry.topology[1], agent_a, agent_b))]
          /\ call' = Call("remove_connection", agent_a, agent_b, "none", TRUE)
    /\ UNCHANGED << pc, engine, contests, batched_vars, sequential_vars, contest_vars >>

TopologyNext ==
    \/ CallAddConnection
    \/ CallRemoveConnection

TopologySpec == TopologyInit /\ [][TopologyNext]_vars

\* ------------------------------------------------------------------------
\* One contest: run_debate (debate/debate_runner.rs, llm/client.rs)
\* ------------------------------------------------------------------------
MaxTurns == 3

\* Debate::new: no exchange yet, the default outcome. The ids carry the names
\* run_debate and the schedulers use for them.
Debate_new(proposer, opposer, max_turns) ==
    [proposer_id |-> proposer, opposer_id |-> opposer, max_turns |-> max_turns,
     exchanges |-> << >>, outcome |-> "Ongoing"]

add_exchange(d, exchange) == [d EXCEPT !.exchanges = Append(d.exchanges, exchange)]

set_outcome(d, outcome) == [d EXCEPT !.outcome = outcome]

\* Debate::is_complete: exchanges.len() - 1 == max_turns in usize arithmetic.
\* With no exchange the subtraction overflows: a build with overflow checks
\* panics there, a build without them wraps to usize::MAX, which is -1 modulo
\* 2^w and differs from every max_turns below usize::MAX. The set holds what
\* the call can answer.
is_complete(d) ==
    IF Len(d.exchanges) = 0
    THEN {"panic", IF -1 = d.max_turns THEN "true" ELSE "false"}
    ELSE {IF Len(d.exchanges) - 1 = d.max_turns THEN "true" ELSE "false"}

\* The Exchange pushed at lines 52-61; the texts of the messages are left out.
Exchange(id) == [proposer |-> [id |-> id], opposer |-> [id |-> id + 1]]

\* A bug: the loop runs one round more than max_turns.
in_range_inclusive(t, max_turns) == t <= max_turns

\* for turn in 0..max_turns: whether the loop has a round for this turn.
in_range(t, max_turns) == t < max_turns

\* One send_message call: whom it was sent to and whether it returned Ok.
LlmCall(to, ok) == [to |-> to, ok |-> ok]

\* run_debate, lines 20-39: the debate is created and the loop is entered.
RunDebateStart ==
    /\ contest_pc = "none"
    /\ \E proposer \in Ids, opposer \in Ids, max_turns \in 0 .. MaxTurns :
          /\ cur_debate' = Some(Debate_new(proposer, opposer, max_turns))
          /\ contest_pc' = IF in_range(0, max_turns) THEN "proposer" ELSE "judge"
    /\ message_id' = 0
    /\ turn' = 0
    /\ llm_calls' = << >>
    /\ judge_response' = None
    /\ UNCHANGED << registry, pc, engine, contests, call, batched_vars, sequential_vars >>

\* run_round, lines 91-93: the proposer's call; an error leaves run_debate.
ProposerSend ==
    /\ contest_pc = "proposer"
    /\ \E ok \in BOOLEAN :
          /\ llm_calls' = Append(llm_calls, LlmCall("proposer", ok))
          /\ contest_pc' = IF ok THEN "opposer" ELSE "returned_err"
    /\ UNCHANGED << registry, pc, engine, contests, call, batched_vars, sequential_vars,
                    cur_debate, turn, message_id, judge_response >>

\* run_round, lines 96-105, and run_debate, lines 52-63: the opposer's call,
\* then the exchange is added and the loop goes on to the next turn.
OpposerSend ==
    /\ contest_pc = "opposer"
    /\ \E ok \in BOOLEAN :
          /\ llm_calls' = Append(llm_calls, LlmCall("opposer", ok))
          /\ IF ok
             THEN /\ cur_debate' = Some(add_exchange(cur_debate[1], Exchange(message_id)))
                  /\ message_id' = message_id + 2
                  /\ turn' = turn + 1
                  /\ contest_pc' = IF in_range(turn + 1, cur_debate[1].max_turns)
                                   THEN "proposer" ELSE "judge"
             ELSE /\ contest_pc' = "returned_err"
                  /\ UNCHANGED << cur_debate, message_id, turn >>
    /\ UNCHANGED << registry, pc, engine, contests, call, batched_vars, sequential_vars,
                    judge_response >>

\* run_debate, lines 67-70, with judge_debate, lines 49-57: the judge's call;
\* its verdict is set on the debate, an error leaves run_debate.
JudgeSend ==
    /\ contest_pc = "judge"
    /\ \E ok \in BOOLEAN :
          /\ llm_calls' = Append(llm_calls, LlmCall("judge", ok))
          /\ IF ok
             THEN \E reply \in JudgeResponses :
                    /\ judge_response' = Some(reply)
                    /\ IF judge_debate(reply) = "Err"
                       THEN /\ contest_pc' = "returned_err"
                            /\ UNCHANGED cur_debate
                       ELSE /\ contest_pc' = "returned_ok"
                            /\ cur_debate' = Some(set_outcome(cur_debate[1], judge_debate(reply)))
             ELSE /\ contest_pc' = "returned_err"
                  /\ UNCHANGED << cur_debate, judge_response >>
    /\ UNCHANGED << registry, pc, engine, contests, call, batched_vars, sequential_vars,
                    turn, message_id >>

\* is_complete takes &self: the debate is left alone, the answer is recorded.
CallIsComplete ==
    /\ cur_debate # None
    /\ \E answer \in is_complete(cur_debate[1]) :
          call' = Call("is_complete", None, None, answer, answer # "panic")
    /\ UNCHANGED << registry, pc, engine, contests, batched_vars, sequential_vars, contest_vars >>

DebateInit ==
    /\ registry = Registry_new
    /\ max_parallel_debates = 0
    /\ InitRun

DebateNext ==
    \/ RunDebateStart
    \/ ProposerSend
    \/ OpposerSend
    \/ JudgeSend
    \/ CallIsComplete

DebateSpec == DebateInit /\ [][DebateNext]_vars

\* ------------------------------------------------------------------------

\* Specifications of a run
\* ------------------------------------------------------------------------
Next ==
    \/ RunStart
    \/ Finalize
    \/ PruneFrontier
    \/ Dispatch
    \/ TaskFinish
    \/ JoinNext
    \/ ApplyResult
    \/ SeqRunStart
    \/ SeqPopFront
    \/ SeqDebate
    \/ SeqFinish

Spec == Init /\ [][Next]_vars

\* The coordinating flow always takes its next step and every spawned contest
\* comes to an end (with a verdict or an error).
FairSpec == Spec /\ WF_vars(Next)

\* ------------------------------------------------------------------------
\* Properties
\* ------------------------------------------------------------------------
status(reg, id) == reg.agents[id].infection_status

AllJoined == \A k \in 1 .. Len(tasks) : tasks[k].state = "joined"

\* C1 (Conservation): in every state of a run, between any two calls of
\* apply_debate_outcome included, the Healthy, Infected and Immune counts add
\* up to agent_count, and no step of a run changes agent_count.
Conservation ==
    /\ [](healthy_count(registry) + infected_count(registry) + immune_count(registry)
             = agent_count(registry))
    /\ [][agent_count(registry') = agent_count(registry)]_vars

\* C1 witness: in the middle of a reconciliation, one verdict applied (an
\* Immune agent) and another contest of the batch still to be applied.
ConservationWitness ==
    /\ pc = "apply"
    /\ Len(all_debates) >= 1
    /\ immune_count(registry) >= 1
    /\ healthy_count(registry) >= 1
    /\ infected_count(registry) >= 1

\* C2 (Monotonicity): every step of a run leaves each agent's status as it is
\* or takes it from Healthy to Infected or from Healthy to Immune; so Immune
\* is never left and Infected never goes back to Healthy.
Monotonicity ==
    [][\A id \in DOMAIN registry.agents :
          /\ id \in DOMAIN registry'.agents
          /\ status(registry', id) # status(registry, id) =>
                /\ status(registry, id) = "Healthy"
                /\ status(registry', id) \in {"Infected", "Immune"}]_vars

\* C2 witness: a batched run of several passes has ended with an agent it
\* made Immune and an agent it made Infected.
MonotonicityWitness ==
    /\ pc = "done"
    /\ engine = "batched"
    /\ passes >= 3
    /\ \E a, b \in DOMAIN registry.agents :
          /\ is_immune(registry.agents[a])
          /\ is_infected(registry.agents[b])
          /\ registry.agents[b].infected_by # None

NoDuplicateOpposer(b) ==
    \A i, j \in 1 .. Len(b) : i # j => b[i][2] # b[j][2]

\* C3 (Batch safety): the batch in flight names no opposer twice, and neither
\* does any batch build_debate_batch can return at the head of the loop for
\* the registry and frontier of that moment, under any max_parallel_debates.
BatchSafety ==
    /\ NoDuplicateOpposer(batch)
    /\ pc = "loop" =>
          \A k \in 0 .. MaxParallel :
             \A b \in debate_batches(registry, infected_deque, k) : NoDuplicateOpposer(b)

\* C3 witness: a batch is in flight whose opposer is a potential target of
\* two different agents of the frontier.
BatchSafetyWitness ==
    /\ pc = "join"
    /\ \E i \in 1 .. Len(batch), p, q \in 1 .. Len(infected_deque) :
          /\ infected_deque[p] # infected_deque[q]
          /\ batch[i][2] \in potential_target_set(registry, infected_deque[p])
          /\ batch[i][2] \in potential_target_set(registry, infected_deque[q])

\* C4 (At-most-once contest): in a run of either scheduler no ordered pair
\* (proposer, opposer) is handed to run_debate twice.
AtMostOnceContest ==
    \A i, j \in 1 .. Len(contests) : i # j => contests[i] # contests[j]

\* C4 witness: a batched run of at least two batches has ended.
AtMostOnceContestWitness ==
    /\ pc = "done"
    /\ engine = "batched"
    /\ passes >= 3
    /\ Len(contests) >= 2

ContestFailed == \E k \in 1 .. Len(tasks) : tasks[k].result = "Err"

\* C5 (Termination): a batched run in which no contest fails reaches the end
\* of run; it ends with an empty frontier, and the while loop is never
\* entered more than agent_count times.
Termination ==
    /\ <>(engine = "sequential" \/ pc = "done" \/ ContestFailed)
    /\ [](engine = "batched" /\ pc = "done" => infected_deque = << >>)
    /\ [](passes <= agent_count(registry))

\* C5 witness: a batched run has ended after as many passes as there are
\* agents, more than two.
TerminationWitness ==
    /\ pc = "done"
    /\ engine = "batched"
    /\ passes = agent_count(registry)
    /\ passes >= 3

\* C6: when the batched run returns a failure, every contest of the batch has
\* been joined, so none was aborted or left behind.
SiblingsRunToCompletion ==
    (engine = "batched" /\ pc = "failed") => AllJoined

Applied(reg, debate) ==
    /\ debate.opposer_id \in DOMAIN reg.agents
    /\ debate.outcome = "ProposerWon" =>
          /\ status(reg, debate.opposer_id) = "Infected"
          /\ reg.agents[debate.opposer_id].infected_by = Some(debate.proposer_id)
    /\ debate.outcome = "OpposerWon" => status(reg, debate.opposer_id) = "Immune"

\* C7: a failed contest ends the batched run with an error; the registry is
\* then the one the failing batch was built from, which shows every verdict
\* of the earlier batches.
FailureKeepsEarlierBatches ==
    /\ (engine = "batched" /\ \E k \in 1 .. Len(tasks) :
           tasks[k].state = "joined" /\ tasks[k].result = "Err") => pc = "failed"
    /\ (engine = "batched" /\ pc = "failed") =>
          /\ registry = registry_at_dispatch[1]
          /\ \A i \in 1 .. Len(all_debates) : Applied(registry, all_debates[i])
          /\ Len(all_debates) < Len(contests)

\* C7 witness: the run has failed in a later batch, after an earlier batch
\* was reconciled.
FailureKeepsEarlierBatchesWitness ==
    /\ engine = "batched"
    /\ pc = "failed"
    /\ Len(all_debates) >= 1

RunState == [ok |-> TRUE, registry |-> registry, infected_deque |-> infected_deque,
             all_debates |-> all_debates]

\* C8 (Arrival-order independence): when a batch has been joined, applying
\* its debates in any order gives the registry that the arrival order gives.
ArrivalOrderIndependence ==
    (pc = "apply" /\ Len(results) = Len(batch)) =>
        \A order \in IterationOrders(1 .. Len(results)) :
            apply_batch_results(RunState, [i \in 1 .. Len(results) |-> results[order[i]]]).registry
                = apply_batch_results(RunState, results).registry

\* C8 witness: two debates of a batch with different verdicts have been
\* joined in an order other than the order they were spawned in.
ArrivalOrderIndependenceWitness ==
    /\ pc = "apply"
    /\ Len(results) = Len(batch)
    /\ Len(results) >= 2
    /\ results[1].outcome # results[2].outcome
    /\ results[1].opposer_id # batch[1][2]

\* C9: a step of the batched run changes the registry only in reconciliation,
\* when every contest of the batch has been joined; and whenever the loop is
\* about to build a batch, every contest spawned so far has been applied.
ReconciliationOnly ==
    /\ [][(engine = "batched" /\ registry' # registry) => (pc = "apply" /\ AllJoined)]_vars
    /\ [](pc = "loop" =>
             /\ results = << >>
             /\ Len(all_debates) = Len(contests)
             /\ \A i \in 1 .. Len(all_debates) : Applied(registry, all_debates[i]))

\* C9 witness: a batch of two contests has been reconciled and the loop is
\* about to build the next batch from a frontier that is not empty.
ReconciliationOnlyWitness ==
    /\ pc = "loop"
    /\ Len(all_debates) >= 2
    /\ infected_deque # << >>

\* C10 (Idempotent seeding): infect_patient_init on an agent that is Infected
\* returns an error and leaves the agent as it was.
IdempotentSeeding ==
    [][\A id \in DOMAIN registry.agents :
          (/\ call'.op = "infect_patient_init"
           /\ call'.a = id
           /\ is_infected(registry.agents[id]))
          => (/\ ~call'.ok
              /\ registry'.agents[id] = registry.agents[id])]_vars

\* C11 (Immune is terminal): no call on the Registry interface takes an agent
\* that is Immune to another status.
ImmuneTerminal ==
    [][\A id \in DOMAIN registry.agents :
          is_immune(registry.agents[id]) =>
              /\ id \in DOMAIN registry'.agents
              /\ is_immune(registry'.agents[id])]_vars

\* C12 (infected_by is permanent): no call on the Registry interface changes
\* an infected_by that is Some(x).
InfectedByPermanent ==
    [][\A id \in DOMAIN registry.agents :
          registry.agents[id].infected_by # None =>
              /\ id \in DOMAIN registry'.agents
              /\ registry'.agents[id].infected_by = registry.agents[id].infected_by]_vars

\* The topology of the registry holds an edge between a and b.
EdgePresent(reg, a, b) ==
    /\ reg.topology # None
    /\ a \in DOMAIN reg.topology[1]
    /\ b \in reg.topology[1][a]

Eligible(reg, p, o) ==
    /\ p \in DOMAIN reg.agents
    /\ o \in DOMAIN reg.agents
    /\ status(reg, p) = "Infected"
    /\ status(reg, o) = "Healthy"
    /\ EdgePresent(reg, p, o)

\* C14: no run stops on a failed agent lookup, and every pair handed to
\* run_debate was eligible in the registry it was chosen from: the pairs of
\* the batch in flight in the registry the batch was built from, and the
\* targets the sequential run still has to contest in the current registry,
\* which is the one run_debate checks with can_debate.
EligiblePairsOnly ==
    /\ pc # "panicked"
    /\ (engine = "batched" /\ batch # << >>) =>
          \A i \in 1 .. Len(batch) :
              Eligible(registry_at_dispatch[1], batch[i][1], batch[i][2])
    /\ pc = "seq_targets" =>
          \A i \in 1 .. Len(targets) : Eligible(registry, proposer_id[1], targets[i])

\* C14 witness: a later batch is in flight whose proposer was infected by an
\* earlier contest of the run.
EligiblePairsOnlyWitness ==
    /\ engine = "batched"
    /\ pc = "join"
    /\ Len(all_debates) >= 1
    /\ \E i \in 1 .. Len(batch) : registry.agents[batch[i][1]].infected_by # None

\* C16: in every state of a run, so also when it has ended, every agent that
\* is Immune and every agent that is Healthy has infected_by = None.
NoInfectorUnlessInfected ==
    \A id \in DOMAIN registry.agents :
        status(registry, id) \in {"Immune", "Healthy"} => registry.agents[id].infected_by = None

\* C16 witness: a run has ended in which an opposer won and another agent
\* was never contested.
NoInfectorUnlessInfectedWitness ==
    /\ pc = "done"
    /\ \E d \in {all_debates[i] : i \in 1 .. Len(all_debates)}
              \cup {debates[i] : i \in 1 .. Len(debates)} :
          /\ d.outcome = "OpposerWon"
          /\ is_immune(registry.agents[d.opposer_id])
    /\ \E id \in DOMAIN registry.agents : is_healthy(registry.agents[id])

Concluded(d) == d.outcome \in {"ProposerWon", "OpposerWon"}

\* C17: every debate the scheduler has joined and is about to hand to
\* apply_debate_outcome, and every debate of the log of either scheduler, has
\* the outcome ProposerWon or OpposerWon, never Ongoing.
NoOngoingApplied ==
    /\ \A i \in 1 .. Len(results) : Concluded(results[i])
    /\ \A i \in 1 .. Len(all_debates) : Concluded(all_debates[i])
    /\ \A i \in 1 .. Len(debates) : Concluded(debates[i])

\* C17 witness: a batched run has ended with both verdicts in its log.
NoOngoingAppliedWitness ==
    /\ engine = "batched"
    /\ pc = "done"
    /\ \E i, j \in 1 .. Len(all_debates) :
          /\ all_debates[i].outcome = "ProposerWon"
          /\ all_debates[j].outcome = "OpposerWon"

\* C19 (Batch size bound): the batch in flight never has more pairs than
\* max_parallel_debates, whatever value is configured, 0 included.
BatchSizeBound ==
    Len(batch) <= max_parallel_debates

\* C20 (Frontier membership): in every state of a batched run infected_deque
\* names no id twice and every id in it is a registered Infected agent; and
\* when a ProposerWon debate is about to be applied, its opposer is appended
\* if it is not in the frontier and the frontier is left alone if it is.
FrontierMembership ==
    /\ \A i, j \in 1 .. Len(infected_deque) : i # j => infected_deque[i] # infected_deque[j]
    /\ \A i \in 1 .. Len(infected_deque) :
          /\ infected_deque[i] \in DOMAIN registry.agents
          /\ status(registry, infected_deque[i]) = "Infected"
    /\ (pc = "apply" /\ results # << >>) =>
          LET d == Head(results)
              present == \E i \in 1 .. Len(infected_deque) : infected_deque[i] = d.opposer_id
          IN  d.outcome = "ProposerWon" =>
                 push_frontier(infected_deque, d) =
                    IF present THEN infected_deque ELSE Append(infected_deque, d.opposer_id)

\* C20 witness: the loop is about to build a batch from a frontier that
\* holds a seed and, behind it, an opposer that lost in the run.
FrontierMembershipWitness ==
    /\ pc = "loop"
    /\ Len(infected_deque) >= 2
    /\ registry.agents[infected_deque[1]].infected_by = None
    /\ registry.agents[infected_deque[Len(infected_deque)]].infected_by # None
    /\ \E i \in 1 .. Len(all_debates) :
          /\ all_debates[i].outcome = "ProposerWon"
          /\ all_debates[i].opposer_id = infected_deque[Len(infected_deque)]

\* C13: a call of can_debate(proposer, opposer) returns Ok exactly when both
\* ids are registered, the proposer is Infected, the opposer is Healthy and
\* the topology holds an edge between them; it returns an error in every
\* other case, and it leaves the registry as it was.
CanDebateExact ==
    [][call'.op = "can_debate" =>
          /\ call'.ok <=> Eligible(registry, call'.a, call'.b)
          /\ registry' = registry]_vars

\* C13 witness: can_debate has answered Ok on a registry of three agents in
\* which the third agent is Immune.
CanDebateExactWitness ==
    /\ call.op = "can_debate"
    /\ call.ok
    /\ agent_count(registry) >= 3
    /\ \E x \in DOMAIN registry.agents \ {call.a, call.b} : is_immune(registry.agents[x])

\* C15: a call apply_debate_outcome(A, B, ProposerWon) on a registered B
\* returns Ok, leaves B Infected with infected_by = Some(A), and changes no
\* other agent, neither the set of agents nor the id counter, and not the
\* topology.
ProposerWonFrame ==
    [][(/\ call'.op = "apply_debate_outcome"
        /\ call'.outcome = "ProposerWon"
        /\ call'.b \in DOMAIN registry.agents)
       => /\ call'.ok
          /\ DOMAIN registry'.agents = DOMAIN registry.agents
          /\ registry'.agents[call'.b] =
                [infection_status |-> "Infected", infected_by |-> Some(call'.a)]
          /\ \A x \in DOMAIN registry.agents \ {call'.b} :
                registry'.agents[x] = registry.agents[x]
          /\ registry'.topology = registry.topology
          /\ registry'.next_agent_id = registry.next_agent_id]_vars

\* C15 witness: ProposerWon has been applied to a registered opposer on a
\* registry with a topology, next to an agent that carries an infector and
\* an agent that is Immune.
ProposerWonFrameWitness ==
    /\ call.op = "apply_debate_outcome"
    /\ call.outcome = "ProposerWon"
    /\ call.ok
    /\ registry.topology # None
    /\ registry.agents[call.b] =
          [infection_status |-> "Infected", infected_by |-> Some(call.a)]
    /\ \E x, y \in DOMAIN registry.agents \ {call.b} :
          /\ registry.agents[x].infected_by # None
          /\ is_immune(registry.agents[y])

\* C18: a call infect_patient_init(id) on a registered Healthy agent returns
\* Ok and leaves it Infected with infected_by = None; on an id that is not
\* registered it returns an error and leaves the registry as it was; and the
\* agents that are Infected already, seeded before, are Infected after it.
SeedingContract ==
    [][call'.op = "infect_patient_init" =>
          /\ (/\ call'.a \in DOMAIN registry.agents
              /\ status(registry, call'.a) = "Healthy")
             => /\ call'.ok
                /\ registry'.agents[call'.a] =
                      [infection_status |-> "Infected", infected_by |-> None]
          /\ call'.a \notin DOMAIN registry.agents
             => /\ ~call'.ok
                /\ registry' = registry
          /\ \A x \in DOMAIN registry.agents :
                status(registry, x) = "Infected" =>
                   /\ x \in DOMAIN registry'.agents
                   /\ status(registry', x) = "Infected"]_vars

\* C18 witness: an agent has been seeded after another one, and both are
\* Infected with infected_by = None.
SeedingContractWitness ==
    /\ call.op = "infect_patient_init"
    /\ call.ok
    /\ \E x \in DOMAIN registry.agents \ {call.a} :
          /\ registry.agents[x] = [infection_status |-> "Infected", infected_by |-> None]
          /\ registry.agents[call.a] = registry.agents[x]

\* The batch in flight was built in the last step: no task has ended yet.
BatchJustBuilt ==
    /\ pc = "join"
    /\ \A k \in 1 .. Len(tasks) : tasks[k].state = "running"

\* C21 (Tie-break by frontier order): in the frontier the seeds come first,
\* followed by the agents the run infected in the order their debates were
\* applied; and in a batch that was just built no opposer could have been
\* claimed by an agent that stands earlier in the frontier than its proposer.
FrontierOrderTieBreak ==
    /\ \A i, j \in 1 .. Len(infected_deque) :
          (i < j /\ registry.agents[infected_deque[j]].infected_by = None)
              => registry.agents[infected_deque[i]].infected_by = None
    /\ \A i, j \in 1 .. Len(infected_deque) :
          (i < j /\ registry.agents[infected_deque[i]].infected_by # None) =>
              \E a, b \in 1 .. Len(all_debates) :
                  /\ a < b
                  /\ all_debates[a].outcome = "ProposerWon"
                  /\ all_debates[a].opposer_id = infected_deque[i]
                  /\ all_debates[b].outcome = "ProposerWon"
                  /\ all_debates[b].opposer_id = infected_deque[j]
    /\ BatchJustBuilt =>
          \A k \in 1 .. Len(batch) :
              \A p, q \in 1 .. Len(infected_deque) :
                  (q < p /\ infected_deque[p] = batch[k][1]) =>
                      batch[k][2] \notin potential_target_set(registry, infected_deque[q])

\* C21 witness: a batch was just built in which a seed claimed an opposer
\* that an agent infected in the run, standing behind it in the frontier,
\* has as a potential target too.
FrontierOrderTieBreakWitness ==
    /\ BatchJustBuilt
    /\ \E k \in 1 .. Len(batch), p, q \in 1 .. Len(infected_deque) :
          /\ p < q
          /\ infected_deque[p] = batch[k][1]
          /\ registry.agents[infected_deque[p]].infected_by = None
          /\ registry.agents[infected_deque[q]].infected_by # None
          /\ batch[k][2] \in potential_target_set(registry, infected_deque[q])

\* The example graph: agents 0, 1 and 2 with the edges (0,1) and (0,2).
StarTopology == Some(add_connection(add_connection(Topology_new, 0, 1), 0, 2))

\* A batched run on the example graph in which agent 0 is the only seed.
StarScenario ==
    /\ engine = "batched"
    /\ DOMAIN registry.agents = {0, 1, 2}
    /\ registry.topology = StarTopology
    /\ registry.agents[0] = [infection_status |-> "Infected", infected_by |-> None]
    /\ \A id \in {1, 2} :
          ~(is_infected(registry.agents[id]) /\ registry.agents[id].infected_by = None)

\* Every contest of the run so far has ended with the given verdict.
AlwaysVerdict(outcome) ==
    /\ \A k \in 1 .. Len(tasks) : tasks[k].result \in {"none", outcome}
    /\ \A i \in 1 .. Len(all_debates) : all_debates[i].outcome = outcome

BeatenBy(id, p) ==
    registry.agents[id] = [infection_status |-> "Infected", infected_by |-> Some(p)]

\* C22 (Scenario, always ProposerWon): on the example graph with agent 0
\* seeded and max_parallel_debates >= 2, the first batch is made of (0,1) and
\* (0,2); when it has been applied agents 1 and 2 are Infected by 0 and in
\* the frontier, and no batch can be built; the run ends with the three
\* agents Infected, none Immune, and two debates in the log.
ScenarioAlwaysProposerWon ==
    (StarScenario /\ max_parallel_debates >= 2 /\ AlwaysVerdict("ProposerWon")) =>
        /\ (pc = "join" /\ passes = 1) =>
              /\ Len(batch) = 2
              /\ {batch[1], batch[2]} = {<< 0, 1 >>, << 0, 2 >>}
        /\ (pc = "loop" /\ passes = 1) =>
              /\ BeatenBy(1, 0)
              /\ BeatenBy(2, 0)
              /\ Contains(infected_deque, 1)
              /\ Contains(infected_deque, 2)
              /\ debate_batches(registry, infected_deque, max_parallel_debates) = {<< >>}
        /\ pc = "done" =>
              /\ get_infected_agent_ids(registry) = {0, 1, 2}
              /\ immune_count(registry) = 0
              /\ Len(all_debates) = 2
              /\ Len(contests) = 2
        /\ pc \notin {"failed", "panicked"}

\* C22 witness: the run of the scenario has ended.
ScenarioAlwaysProposerWonWitness ==
    /\ StarScenario
    /\ max_parallel_debates >= 2
    /\ AlwaysVerdict("ProposerWon")
    /\ pc = "done"
    /\ Len(all_debates) = 2

\* C23 (Scenario, always OpposerWon): on the example graph with agent 0
\* seeded (and room for both contests in one batch), after one iteration of
\* the loop agents 1 and 2 are Immune and the frontier is empty; the run ends
\* with agent 0 Infected and agents 1 and 2 Immune.
ScenarioAlwaysOpposerWon ==
    (StarScenario /\ max_parallel_debates >= 2 /\ AlwaysVerdict("OpposerWon")) =>
        /\ (pc = "loop" /\ passes = 1) =>
              /\ is_immune(registry.agents[1])
              /\ is_immune(registry.agents[2])
              /\ infected_deque = << >>
        /\ pc = "done" =>
              /\ get_infected_agent_ids(registry) = {0}
              /\ immune_count(registry) = 2

\* A registered agent with no edges: there is no topology, or the topology
\* gives it no neighbour.
Isolated(reg, id) ==
    /\ id \in DOMAIN reg.agents
    /\ reg.topology # None => get_neighbors(reg.topology[1], id) = {}

\* C24 (An agent with no edges is inert): it is neither proposer nor opposer
\* of any contest of either scheduler; every pruning pass leaves it out of the
\* frontier; while it is Infected no step changes that, so it still is when
\* the run has ended; and a run that fails has failed in a contest, which is
\* a contest of other agents.
InertAgent ==
    /\ [](\A id \in Ids : Isolated(registry, id) =>
             \A i \in 1 .. Len(contests) : contests[i][1] # id /\ contests[i][2] # id)
    /\ [](pc # "panicked" /\ (pc = "failed" => contests # << >>))
    /\ [][\A id \in Ids : Isolated(registry, id) =>
             /\ (pc = "loop" /\ pc' = "loop" /\ passes' # passes)
                   => ~Contains(infected_deque', id)
             /\ is_infected(registry.agents[id]) =>
                   /\ Isolated(registry', id)
                   /\ is_infected(registry'.agents[id])]_vars

\* C24 witness: a batched run with a contest among other agents has ended;
\* an agent with no edges that was seeded has left the frontier and is
\* Infected.
InertAgentWitness ==
    /\ engine = "batched"
    /\ pc = "done"
    /\ all_debates # << >>
    /\ registry.topology # None
    /\ \E id \in Ids :
          /\ Isolated(registry, id)
          /\ is_infected(registry.agents[id])
          /\ ~Contains(infected_deque, id)

\* C25: every step of a run that makes an agent Infected records a
\* registered Infected agent as its infector, and an agent that is Infected
\* with infected_by = None after a step was so before it: such agents go back
\* to the seeding before the run; every opposer the log shows as beaten is
\* Infected with the proposer of that debate as infector.
InfectorDefined ==
    /\ [][\A id \in DOMAIN registry'.agents :
             /\ (~is_infected(registry.agents[id]) /\ is_infected(registry'.agents[id])) =>
                   \E p \in DOMAIN registry.agents :
                       /\ is_infected(registry.agents[p])
                       /\ registry'.agents[id].infected_by = Some(p)
             /\ (is_infected(registry'.agents[id]) /\ registry'.agents[id].infected_by = None)
                   => registry.agents[id] = registry'.agents[id]]_vars
    /\ [](\A d \in {all_debates[i] : i \in 1 .. Len(all_debates)}
                    \cup {debates[i] : i \in 1 .. Len(debates)} :
             d.outcome = "ProposerWon" => BeatenBy(d.opposer_id, d.proposer_id))

\* C25 witness: a run has ended in which a seed infected an agent that went
\* on to infect another one.
InfectorDefinedWitness ==
    /\ pc = "done"
    /\ \E s, a, b \in DOMAIN registry.agents :
          /\ registry.agents[s] = [infection_status |-> "Infected", infected_by |-> None]
          /\ BeatenBy(a, s)
          /\ BeatenBy(b, a)

\* C26: a contest performs exactly max_turns rounds before the verdict. The
\* send_message calls of run_debate are made in the order proposer, opposer,
\* proposer, opposer, ..., 2 * max_turns of them, each one only after the
\* call before it returned Ok; the judge is called once, after the last
\* round; a debate that is returned holds exactly max_turns exchanges and a
\* verdict; a call that fails ends the contest with an error and no verdict.
RoundsBeforeVerdict ==
    cur_debate # None =>
       LET d == cur_debate[1]
           n == Len(llm_calls)
       IN  /\ n <= 2 * d.max_turns + 1
           /\ \A k \in 1 .. n :
                 /\ llm_calls[k].to = IF k = 2 * d.max_turns + 1 THEN "judge"
                                      ELSE IF k % 2 = 1 THEN "proposer" ELSE "opposer"
                 /\ k < n => llm_calls[k].ok
           /\ Len(d.exchanges) = Cardinality({k \in 1 .. n : llm_calls[k] = LlmCall("opposer", TRUE)})
           /\ contest_pc = "returned_ok" =>
                 /\ n = 2 * d.max_turns + 1
                 /\ \A k \in 1 .. n : llm_calls[k].ok
                 /\ Len(d.exchanges) = d.max_turns
                 /\ d.outcome \in {"ProposerWon", "OpposerWon"}
           /\ (\E k \in 1 .. n : ~llm_calls[k].ok) => contest_pc = "returned_err"
           /\ contest_pc # "returned_ok" => d.outcome = "Ongoing"
           /\ (contest_pc = "returned_err" /\ \A k \in 1 .. n : llm_calls[k].ok) =>
                 /\ n = 2 * d.max_turns + 1
                 /\ judge_response # None
                 /\ judge_debate(judge_response[1]) = "Err"

\* A contest of two rounds has returned its debate: four calls to the
\* contestants, one to the judge, two exchanges and a verdict.
RoundsBeforeVerdictWitness ==
    /\ contest_pc = "returned_ok"
    /\ cur_debate[1].max_turns = 2
    /\ Len(llm_calls) = 5
    /\ Len(cur_debate[1].exchanges) = 2

\* C27: an ambiguous or unparseable verdict is fatal and never defaulted. Once
\* the judge has replied, run_debate returns a debate only if the reply names
\* exactly one side, the verdict being that side's, and returns an error if
\* the reply names neither side or both sides.
VerdictNeverDefaulted ==
    judge_response # None =>
       LET reply == judge_response[1]
       IN  /\ contest_pc = "returned_ok" =>
                 \/ reply = {"PROPOSITION"} /\ cur_debate[1].outcome = "ProposerWon"
                 \/ reply = {"OPPOSITION"} /\ cur_debate[1].outcome = "OpposerWon"
           /\ reply \in {{}, {"PROPOSITION", "OPPOSITION"}} =>
                 /\ contest_pc = "returned_err"
                 /\ cur_debate[1].outcome = "Ongoing"

\* C28: add_connection(a, b) changes nothing when a = b or when a and b are
\* already connected; otherwise it makes are_connected(a, b) and
\* are_connected(b, a) both true. Calling it a second time with the same
\* arguments, in either order, gives the topology the first call gave.
AddConnectionIdempotent ==
    [][call'.op = "add_connection" =>
          LET before == registry.topology[1]
              after == registry'.topology[1]
              a == call'.a
              b == call'.b
          IN  /\ (a = b \/ are_connected(before, a, b)) => after = before
              /\ (a # b /\ ~are_connected(before, a, b)) =>
                    are_connected(after, a, b) /\ are_connected(after, b, a)
              /\ add_connection(after, a, b) = after
              /\ add_connection(after, b, a) = after]_vars

\* add_connection was called for two distinct ids, which are connected after
\* it, in a topology of two edges.
AddConnectionIdempotentWitness ==
    /\ call.op = "add_connection"
    /\ call.a # call.b
    /\ are_connected(registry.topology[1], call.a, call.b)
    /\ connection_count(registry.topology[1]) = 2

\* C29: after every sequence of add_connection and remove_connection calls no
\* agent is its own neighbour and the relation is symmetric; and
\* remove_connection(a, b) removes the edge between a and b in both
\* directions and leaves every other edge as it was.
TopologyInvariant ==
    /\ [](LET t == registry.topology[1]
          IN  /\ \A a \in Ids : ~are_connected(t, a, a) /\ a \notin get_neighbors(t, a)
              /\ \A a, b \in Ids : are_connected(t, a, b) = are_connected(t, b, a))
    /\ [][call'.op = "remove_connection" =>
             LET before == registry.topology[1]
                 after == registry'.topology[1]
             IN  /\ ~are_connected(after, call'.a, call'.b)
                 /\ ~are_connected(after, call'.b, call'.a)
                 /\ \A x, y \in Ids :
                       {x, y} # {call'.a, call'.b} =>
                          are_connected(after, x, y) = are_connected(before, x, y)]_vars

\* remove_connection was called for an edge of the topology: its two ends are
\* still keys of the map and no longer connected, and another edge is left.
TopologyInvariantWitness ==
    /\ call.op = "remove_connection"
    /\ call.a # call.b
    /\ {call.a, call.b} \subseteq get_all_agent_ids(registry.topology[1])
    /\ ~are_connected(registry.topology[1], call.a, call.b)
    /\ connection_count(registry.topology[1]) >= 1

RECURSIVE SumDegrees(_, _)
SumDegrees(connections, ids) ==
    IF ids = {} THEN 0
    ELSE LET id == CHOOSE x \in ids : TRUE
         IN  get_degree(connections, id) + SumDegrees(connections, ids \ {id})

\* C30: connection_count counts each undirected edge once. After every
\* sequence of add_connection and remove_connection calls it is the number of
\* unordered pairs {a, b} with are_connected(a, b), which is half the sum of
\* get_degree over all agents; a topology connecting every pair of n distinct
\* ids has n * (n - 1) / 2 connections and one without an edge has 0.
ConnectionCountOncePerEdge ==
    LET t == registry.topology[1]
        pairs == {e \in SUBSET Ids : \E a, b \in Ids : e = {a, b} /\ are_connected(t, a, b)}
    IN  /\ connection_count(t) = Cardinality(pairs)
        /\ 2 * connection_count(t) = SumDegrees(t, Ids)
        /\ \A among \in SUBSET Ids :
              (\A a, b \in Ids : are_connected(t, a, b) = (a # b /\ {a, b} \subseteq among))
                 => 2 * connection_count(t) = Cardinality(among) * (Cardinality(among) - 1)
        /\ (\A a, b \in Ids : ~are_connected(t, a, b)) => connection_count(t) = 0

\* add_connection has connected the last pair: every pair of the ids is
\* connected and an id has more than one neighbour.
ConnectionCountOncePerEdgeWitness ==
    /\ call.op = "add_connection"
    /\ \A a, b \in Ids : a # b => are_connected(registry.topology[1], a, b)
    /\ connection_count(registry.topology[1]) = (MaxAgents * (MaxAgents - 1)) \div 2
    /\ \E a \in Ids : get_degree(registry.topology[1], a) > 1

ApplyOutcomeNotFound ==
    [][call'.op = "apply_debate_outcome" =>
          /\ (call'.a \notin DOMAIN registry.agents \/ call'.b \notin DOMAIN registry.agents)
                => (~call'.ok /\ registry' = registry)
          /\ (call'.outcome = "Ongoing" /\ {call'.a, call'.b} \subseteq DOMAIN registry.agents)
                => (call'.ok /\ registry' = registry)]_vars

\* The registered Healthy neighbours of an id.
HealthyNeighbours(reg, id) ==
    {x \in DOMAIN reg.agents :
        /\ reg.topology # None
        /\ are_connected(reg.topology[1], id, x)
        /\ reg.agents[x].infection_status = "Healthy"}

\* C33: saturation at termination. When a run of either scheduler has
\* returned Ok, no Infected agent has a Healthy neighbour; and during a run
\* an Infected agent that has left the frontier (pruned by the batched
\* scheduler, popped and served by the sequential one) has no potential
\* target, so it never regains one.
Saturation ==
    /\ pc = "done" =>
          \A id \in DOMAIN registry.agents :
             registry.agents[id].infection_status = "Infected"
                => HealthyNeighbours(registry, id) = {}
    /\ (engine = "batched" /\ pc \notin {"idle", "failed", "panicked"}) =>
          \A id \in DOMAIN registry.agents :
             (registry.agents[id].infection_status = "Infected" /\ ~Contains(infected_deque, id))
                => HealthyNeighbours(registry, id) = {}
    /\ (engine = "sequential" /\ pc \notin {"idle", "failed", "panicked"}) =>
          \A id \in DOMAIN registry.agents :
             (/\ registry.agents[id].infection_status = "Infected"
              /\ ~Contains(frontier, id)
              /\ ~(pc = "seq_targets" /\ proposer_id = Some(id)))
                => HealthyNeighbours(registry, id) = {}

\* A batched run has returned Ok after at least two contests: the seed beat an
\* agent, and that agent has another neighbour, which is Immune.
SaturationWitness ==
    /\ pc = "done"
    /\ engine = "batched"
    /\ Len(all_debates) >= 2
    /\ \E s, a, x \in DOMAIN registry.agents :
          /\ BeatenBy(a, s)
          /\ registry.agents[s] = [infection_status |-> "Infected", infected_by |-> None]
          /\ x # s
          /\ are_connected(registry.topology[1], a, x)
          /\ registry.agents[x].infection_status = "Immune"

\* C34: Debate::is_complete returns true exactly when the number of recorded
\* exchanges has reached max_turns and false before that, and it answers
\* without an arithmetic fault for a debate that has no exchange yet.
IsCompleteExact ==
    [][(call'.op = "is_complete" /\ UNCHANGED contest_vars) =>
          /\ call'.ok
          /\ call'.outcome = IF Len(cur_debate[1].exchanges) >= cur_debate[1].max_turns
                             THEN "true" ELSE "false"]_vars

\* The contest log of the run and the rounds its SimulationResult reports.
Log == IF engine = "batched" THEN all_debates ELSE debates

Rounds == IF engine = "batched" THEN rounds_of_log(all_debates) ELSE rounds_of_edges(visited_edges)

\* The agents whose status a run has changed: a run starts from agents that
\* are Healthy or seeded, so these are the Immune agents and the Infected
\* agents that have an infector.
ChangedAgents ==
    {id \in DOMAIN registry.agents :
        \/ registry.agents[id].infection_status = "Immune"
        \/ registry.agents[id].infection_status = "Infected" /\ registry.agents[id].infected_by # None}

\* C35: one contest per affected agent. Every contest that enters the log
\* changes its opposer from Healthy to Infected (ProposerWon) or Immune
\* (OpposerWon); when a run has returned Ok, no agent is the opposer of two
\* contests of the log and the rounds reported equal the number of agents
\* whose status changed during the run.
OneContestPerAgent ==
    /\ [][Len(Log') = Len(Log) + 1 =>
             LET d == Log'[Len(Log')]
             IN  /\ d.opposer_id \in DOMAIN registry.agents
                 /\ registry.agents[d.opposer_id].infection_status = "Healthy"
                 /\ registry'.agents[d.opposer_id].infection_status =
                       IF d.outcome = "ProposerWon" THEN "Infected" ELSE "Immune"
                 /\ d.outcome \in {"ProposerWon", "OpposerWon"}]_vars
    /\ [](pc = "done" =>
             /\ \A i, j \in 1 .. Len(Log) : i # j => Log[i].opposer_id # Log[j].opposer_id
             /\ Rounds = Len(Log)
             /\ Rounds = Cardinality(ChangedAgents))

\* A run has returned Ok with a log of two contests, one won by the proposer
\* and one by the opposer.
OneContestPerAgentWitness ==
    /\ pc = "done"
    /\ Len(Log) = 2
    /\ \E i, j \in 1 .. Len(Log) : Log[i].outcome = "ProposerWon" /\ Log[j].outcome = "OpposerWon"

\* The position in the log of the contest that infected an agent (0: none).
InfectedAt(id) ==
    IF \E k \in 1 .. Len(Log) : Log[k].opposer_id = id /\ Log[k].outcome = "ProposerWon"
    THEN CHOOSE k \in 1 .. Len(Log) : Log[k].opposer_id = id /\ Log[k].outcome = "ProposerWon"
    ELSE 0

\* The agent reached from id by following infected_by n times, stopping at an
\* agent without infector or at an id that is no agent.
RECURSIVE Infector(_, _)
Infector(id, n) ==
    IF n = 0 \/ id \notin DOMAIN registry.agents THEN id
    ELSE IF registry.agents[id].infected_by = None THEN id
    ELSE Infector(registry.agents[id].infected_by[1], n - 1)

\* C36: the infected_by references form a forest over topology edges. At
\* every point of a run, for every agent b with infected_by = Some(a): a is a
\* registered Infected agent, a # b, a and b are connected in the topology,
\* a became Infected before b (a is a seed or was infected by an earlier
\* contest of the log), and following infected_by from b ends at a seed
\* within agent_count steps, so without a cycle.
InfectedByForest ==
    \A b \in DOMAIN registry.agents :
       registry.agents[b].infected_by # None =>
          LET a == registry.agents[b].infected_by[1]
              root == Infector(b, agent_count(registry))
          IN  /\ a \in DOMAIN registry.agents
              /\ registry.agents[a].infection_status = "Infected"
              /\ registry.agents[b].infection_status = "Infected"
              /\ a # b
              /\ registry.topology # None
              /\ are_connected(registry.topology[1], a, b)
              /\ InfectedAt(b) > 0
              /\ InfectedAt(a) < InfectedAt(b)
              /\ (InfectedAt(a) = 0 => registry.agents[a].infected_by = None)
              /\ root \in DOMAIN registry.agents
              /\ registry.agents[root] = [infection_status |-> "Infected", infected_by |-> None]

\* A chain of two references: an agent beaten by an agent that the seed beat.
InfectedByForestWitness ==
    \E s, a, b \in DOMAIN registry.agents :
       /\ registry.agents[s] = [infection_status |-> "Infected", infected_by |-> None]
       /\ BeatenBy(a, s)
       /\ BeatenBy(b, a)
       /\ Infector(b, 1) = a
       /\ Infector(b, 2) = s

\* The seeds of the run: the agents Infected without infector. Every other
\* agent was Healthy when the run started.
Seeds == {id \in DOMAIN registry.agents :
             registry.agents[id] = [infection_status |-> "Infected", infected_by |-> None]}

Verdicts == [Ids -> {"ProposerWon", "OpposerWon"}]

\* The agents a verdict function lets the infection reach in at most n steps
\* from the seeds: each step adds the neighbours that lose their contest.
RECURSIVE Reached(_, _)
Reached(verdict, n) ==
    IF n = 0 THEN Seeds
    ELSE LET before == Reached(verdict, n - 1)
         IN  before \cup {x \in DOMAIN registry.agents :
                            /\ x \notin Seeds
                            /\ verdict[x] = "ProposerWon"
                            /\ \E a \in before : EdgePresent(registry, a, x)}

\* The final status the start of the run and the verdict function determine.
FinalStatus(verdict, id) ==
    LET infected == Reached(verdict, agent_count(registry))
    IN  IF id \in infected THEN "Infected"
        ELSE IF verdict[id] = "OpposerWon" /\ \E a \in infected : EdgePresent(registry, a, id)
        THEN "Immune"
        ELSE "Healthy"

\* C37: independence of the schedule. When the verdict of a contest is a
\* fixed function of the opposer id alone, a run that returns Ok leaves every
\* agent with the status that the start registry and that function determine,
\* whatever max_parallel_debates is, in whatever order the results of a batch
\* arrive, and for the sequential run as well.
ScheduleIndependence ==
    pc = "done" =>
       \A verdict \in Verdicts :
          (\A k \in 1 .. Len(Log) : Log[k].outcome = verdict[Log[k].opposer_id]) =>
             \A id \in DOMAIN registry.agents :
                registry.agents[id].infection_status = FinalStatus(verdict, id)

\* A run has returned Ok after contests of both verdicts, the later one with a
\* proposer that was infected during the run.
ScheduleIndependenceWitness ==
    /\ pc = "done"
    /\ \E i, j \in 1 .. Len(Log) :
          /\ i < j
          /\ Log[i].outcome = "ProposerWon"
          /\ Log[j].outcome = "OpposerWon"
          /\ Log[j].proposer_id = Log[i].opposer_id

====
